---- MODULE Spec2Model ----
(***************************************************************************)
(* A model of evalrs (src/src/main.rs).                                    *)
(*                                                                         *)
(* Two specifications share this module:                                   *)
(*   TextSpec  the pure text transforms make_manifest and make_source_code *)
(*             applied to the text read from standard input; text is a     *)
(*             sequence of one-character strings and the regular           *)
(*             expressions are matched character by character;             *)
(*   Spec      the filesystem steps of main() for several invocations of   *)
(*             the tool that share the cache directory, one atomic action  *)
(*             per system call that touches the shared cache slot.         *)
(***************************************************************************)
EXTENDS Integers, Sequences, FiniteSets

VARIABLES
    \* ---- text transforms (TextSpec) ----
    input,          \* the text read from standard input (main.rs:145-151)
    manifest,       \* make_manifest(&input)             (main.rs:154)
    source_code,    \* make_source_code(&input)          (main.rs:155)
    step,           \* position in main(): "read", "manifest", "done"; "off" in Spec
    \* ---- invocations sharing the cache (Spec) ----
    pc,             \* pc[i]: position of invocation i in main()
    project,        \* project[i]: TRUE while i's temporary project directory exists
    target,         \* target[i]: the directories at <project_dir>/target/ (none or one)
    seed,           \* seed[i]: what i moved from the cache into its project before building
    slot,           \* the set of directories at <cache_dir>/target/
    populated,      \* the directories that hold build artifacts (are not empty)
    made,           \* number of directories created so far by create_dir_all
    absent,         \* absent[i]: what i's `!cache_target_dir.exists()` returned
    exit_status,    \* exit_status[i]: <<"running">>, <<"exited", code>> or <<"signaled">>
    tool_exit,      \* tool_exit[i]: <<code>> once invocation i's process has ended, else <<>>
    unix,           \* TRUE: rename(2) semantics, FALSE: Windows MoveFileEx semantics
    events          \* the starts and ends of processes, in the order they happened

textVars == <<input, manifest, source_code, step>>
procVars == <<pc, project, target, seed, slot, populated, made, absent,
              exit_status, tool_exit, unix, events>>
vars == <<textVars, procVars>>

(***************************************************************************)
(* Bounds of the model.                                                    *)
(***************************************************************************)
\* Longest input, counted in pieces of text (see Pieces).
MaxPieces == 4
\* Number of invocations of the tool that may run, concurrently or in turn.
MaxInvocations == 2

(***************************************************************************)
(* Text: characters, literals and character classes of the regexes.        *)
(***************************************************************************)
\* The literal "extern" of both declaration regexes.
ExternLit == <<"e", "x", "t", "e", "r", "n">>
\* The literal "crate" of both declaration regexes.
CrateLit == <<"c", "r", "a", "t", "e">>
\* The literal fn main\(\) of the entry-point regex.
FnMainLit == <<"f", "n", " ", "m", "a", "i", "n", "(", ")">>
\* \s of the regex crate (the white space that the inputs can hold).
SpaceClass == {" ", "\n", "\t"}
\* [a-z0-9_]
IdentClass == {"a", "b", "c", "d", "e", "f", "g", "h", "i", "j", "k", "l", "m",
               "n", "o", "p", "q", "r", "s", "t", "u", "v", "w", "x", "y", "z",
               "0", "1", "2", "3", "4", "5", "6", "7", "8", "9", "_"}
\* No match.
NoMatch == <<>>

\* TRUE iff literal lit occurs in s starting at position p.
HasLit(s, p, lit) ==
    /\ p >= 1
    /\ p + Len(lit) - 1 <= Len(s)
    /\ \A k \in 1..Len(lit) : s[p + k - 1] = lit[k]

RECURSIVE SpanEnd(_, _, _)
\* Greedy repetition of a character class: the first position at or after p
\* whose character is not in cls (Len(s)+1 if there is none).
SpanEnd(s, p, cls) ==
    IF p <= Len(s) /\ s[p] \in cls THEN SpanEnd(s, p + 1, cls) ELSE p

\* extern\s+crate\s+([a-z0-9_]+)\s*;  anchored at position p.  No repetition
\* of the pattern can give back characters to what follows it (what follows is
\* never in the repeated class), so the greedy match is the only candidate.
\* The result is NoMatch or <<start, end, name start, name end>>.
MatchAt(s, p) ==
    IF ~HasLit(s, p, ExternLit) THEN NoMatch
    ELSE LET a == p + Len(ExternLit)
             b == SpanEnd(s, a, SpaceClass)
         IN  IF b = a \/ ~HasLit(s, b, CrateLit) THEN NoMatch
             ELSE LET c == b + Len(CrateLit)
                      d == SpanEnd(s, c, SpaceClass)
                      e == SpanEnd(s, d, IdentClass)
                      f == SpanEnd(s, e, SpaceClass)
                  IN  IF d = c \/ e = d \/ f > Len(s) THEN NoMatch
                      ELSE IF s[f] # ";" THEN NoMatch
                      ELSE <<p, f, d, e - 1>>

RECURSIVE CapturesFrom(_, _)
\* Regex::captures_iter: the successive non-overlapping leftmost matches,
\* searching on from the end of the previous match.
CapturesFrom(s, p) ==
    IF p > Len(s) THEN <<>>
    ELSE LET m == MatchAt(s, p)
         IN  IF m = NoMatch THEN CapturesFrom(s, p + 1)
             ELSE <<m>> \o CapturesFrom(s, m[2] + 1)

\* re.captures_iter(input)
captures_iter(s) == CapturesFrom(s, 1)

RECURSIVE Concat(_)
\* collect::<String>() of a sequence of strings.
Concat(ss) == IF ss = <<>> THEN <<>> ELSE Head(ss) \o Concat(Tail(ss))

\* s[a..b], empty when b < a.
Slice(s, a, b) == IF b < a THEN <<>> ELSE SubSeq(s, a, b)

(***************************************************************************)
(* make_manifest (main.rs:208-222).                                        *)
(***************************************************************************)
\* The text before the {} of the manifest's format string.
ManifestHead ==
    <<"\n", "[", "p", "a", "c", "k", "a", "g", "e", "]", "\n",
      "n", "a", "m", "e", " ", "=", " ", "\"", "e", "v", "a", "l", "r", "s", "_",
      "t", "e", "m", "p", "\"", "\n",
      "v", "e", "r", "s", "i", "o", "n", " ", "=", " ", "\"", "0", ".", "0", ".",
      "0", "\"", "\n", "\n",
      "[", "d", "e", "p", "e", "n", "d", "e", "n", "c", "i", "e", "s", "]", "\n">>
\* The text after the {} of the manifest's format string.
ManifestTail == <<"\n">>
\* The text that format!("{} = \"*\"\n", ..) puts after the crate's name.
LatestVersion == <<" ", "=", " ", "\"", "*", "\"", "\n">>

RECURSIVE LineEnd(_, _)
\* The position of the first newline of s at or after p (Len(s)+1 if none).
LineEnd(s, p) == IF p <= Len(s) /\ s[p] # "\n" THEN LineEnd(s, p + 1) ELSE p

RECURSIVE TrimEnd(_)
\* t without its trailing blanks.
TrimEnd(t) ==
    IF t # <<>> /\ t[Len(t)] \in {" ", "\t"} THEN TrimEnd(SubSeq(t, 1, Len(t) - 1)) ELSE t

\* "No comment".
NoComment == <<"\n">>

\* The text of the // comment that follows position e of s on the same line,
\* without the blanks around it; NoComment if no comment follows.
CommentAfter(s, e) ==
    LET q == SpanEnd(s, e + 1, {" ", "\t"})
    IN  IF HasLit(s, q, <<"/", "/">>)
        THEN TrimEnd(Slice(s, SpanEnd(s, q + 2, {" ", "\t"}), LineEnd(s, q) - 1))
        ELSE NoComment

\* The manifest line of a declaration named `name` whose line ends with the
\* comment `comment`, when the comment is read as a version specifier: a
\* key=value comment verbatim, another comment as the version, else "*".
SpecifierLine(name, comment) ==
    IF comment = NoComment THEN name \o <<" ", "=", " ", "\"", "*", "\"">>
    ELSE IF \E k \in 1..Len(comment) : comment[k] = "="
    THEN comment
    ELSE name \o <<" ", "=", " ", "\"">> \o comment \o <<"\"">>

\* A faulty variant of DependencyLine: the trailing comment is taken as the specifier.
DependencyLineWithSpecifier(s, m) ==
    SpecifierLine(Slice(s, m[3], m[4]), CommentAfter(s, m[2])) \o <<"\n">>

\* format!("{} = \"*\"\n", cap.at(1).unwrap()) for the match m of s.
DependencyLine(s, m) == Slice(s, m[3], m[4]) \o LatestVersion

\* A faulty variant of Dependencies: a crate named twice gets one line.
DependenciesDeduplicated(s) ==
    LET caps == captures_iter(s)
        name(k) == Slice(s, caps[k][3], caps[k][4])
        firsts == SelectSeq([k \in 1..Len(caps) |-> k],
                            LAMBDA k : \A j \in 1..(k - 1) : name(j) # name(k))
    IN  Concat([k \in 1..Len(firsts) |-> DependencyLine(s, caps[firsts[k]])])

\* The `dependencies` string of make_manifest.
Dependencies(s) ==
    LET caps == captures_iter(s)
    IN  Concat([k \in 1..Len(caps) |-> DependencyLine(s, caps[k])])

make_manifest(s) == ManifestHead \o Dependencies(s) \o ManifestTail

(***************************************************************************)
(* make_source_code (main.rs:224-240).                                     *)
(***************************************************************************)
\* The text between the two {} of the source's format string.
MainOpen == <<"\n", "f", "n", " ", "m", "a", "i", "n", "(", ")", " ", "{", "\n">>
\* The text after the second {} of the source's format string.
MainClose == <<"\n", "}">>

\* Regex::new(r"^fn main\(\)").is_match(input): without the (?m) flag ^ is
\* the start of the text.
is_match_main(s) == HasLit(s, 1, FnMainLit)

\* format!("{}\n", cap.at(1).unwrap()) for the match m of s.
CrateLine(s, m) == Slice(s, m[1], m[2]) \o <<"\n">>

\* The `crate_lines` string of make_source_code.
CrateLines(s) ==
    LET caps == captures_iter(s)
    IN  Concat([k \in 1..Len(caps) |-> CrateLine(s, caps[k])])

RECURSIVE ReplaceFrom(_, _, _)
\* The text of s from position p on, with the matches ms (in order) left out.
ReplaceFrom(s, p, ms) ==
    IF ms = <<>> THEN Slice(s, p, Len(s))
    ELSE Slice(s, p, Head(ms)[1] - 1) \o ReplaceFrom(s, Head(ms)[2] + 1, Tail(ms))

\* A faulty variant of replace_all: Regex::replace, which replaces the first match only.
replace_first(s) ==
    LET caps == captures_iter(s)
    IN  ReplaceFrom(s, 1, IF caps = <<>> THEN <<>> ELSE <<Head(caps)>>)

\* re.replace_all(input, "")
replace_all(s) == ReplaceFrom(s, 1, captures_iter(s))

make_source_code(s) ==
    IF is_match_main(s) THEN s
    ELSE <<"\n">> \o CrateLines(s) \o MainOpen \o replace_all(s) \o MainClose

(***************************************************************************)
(* The inputs of TextSpec: every text made of at most MaxPieces pieces.    *)
(***************************************************************************)
Pieces ==
    { <<"e", "x", "t", "e", "r", "n", " ">>,
      <<"c", "r", "a", "t", "e", " ", "a", ";">>,
      <<"c", "r", "a", "t", "e", "\n", "b", "_", "9", " ", ";">>,
      <<"f", "n", " ", "m", "a", "i", "n", "(", ")">>,
      <<"\n">>,
      <<"p", "(", ")", ";">>,
      <<"/", "/", "a", "=", "\"", "1", "\"">>,
      <<"/", "/", "1">> }

RECURSIVE TextsOf(_)
TextsOf(n) ==
    IF n = 0 THEN {<<>>}
    ELSE LET shorter == TextsOf(n - 1)
         IN  shorter \cup {t \o p : t \in shorter, p \in Pieces}

Inputs == TextsOf(MaxPieces)

(***************************************************************************)
(* TextSpec: main.rs:145-155.                                              *)
(***************************************************************************)
Invocations == 1..MaxInvocations

\* The state before any invocation of the tool has started: no project, an
\* empty cache slot.
ProcInit ==
    /\ pc = [i \in Invocations |-> "init"]
    /\ project = [i \in Invocations |-> FALSE]
    /\ target = [i \in Invocations |-> {}]
    /\ seed = [i \in Invocations |-> {}]
    /\ slot = {}
    /\ populated = {}
    /\ made = 0
    /\ absent = [i \in Invocations |-> FALSE]
    /\ exit_status = [i \in Invocations |-> <<"running">>]
    /\ tool_exit = [i \in Invocations |-> <<>>]
    /\ events = <<>>

TextInit ==
    /\ input \in Inputs
    /\ manifest = <<>>
    /\ source_code = <<>>
    /\ step = "read"
    /\ ProcInit
    /\ unix = TRUE

\* let manifest = make_manifest(&input);
MakeManifest ==
    /\ step = "read"
    /\ manifest' = make_manifest(input)
    /\ step' = "manifest"
    /\ UNCHANGED <<input, source_code, procVars>>

\* let source_code = make_source_code(&input);
MakeSourceCode ==
    /\ step = "manifest"
    /\ source_code' = make_source_code(input)
    /\ step' = "done"
    /\ UNCHANGED <<input, manifest, procVars>>

TextNext == MakeManifest \/ MakeSourceCode

TextSpec == TextInit /\ [][TextNext]_vars

(***************************************************************************)
(* Spec: main() from the creation of the project to the end of the         *)
(* process (main.rs:157-206), for MaxInvocations invocations that share    *)
(* <temp_dir>/evalrs_cache/target/.  A directory is a number; the cache    *)
(* slot and a project's target/ are the sets of directories at that path.  *)
(* A failed expect() panics: the stack unwinds, which drops project_dir    *)
(* and removes the project, and the process ends with the panic status.    *)
(* Failures that do not come from the state of the file system (no cargo,  *)
(* a full disk) are left out.                                              *)
(***************************************************************************)
\* The exit codes a child that exits may report.
ChildCodes == {0, 1}
\* The exit status of a process whose main thread panicked.
PanicCode == 101

\* A faulty variant of create_dir_all: the directory is made anew whether or not it exists.
create_dir_anew(sl, n) == {n + 1}

\* fs::create_dir_all(cache_target_dir): the directories at the path after
\* the call, n directories having been made before.
create_dir_all(sl, n) == IF sl = {} THEN {n + 1} ELSE sl

\* A faulty variant of RenamedAway: the directory is copied, not moved.
CopiedAway(src) == src

\* fs::rename(from, to), success: what is left at `from`.
RenamedAway(src) == {}

\* fs::rename(from, to) of a directory: whether it succeeds.  `from` must
\* exist; `to` must not exist or, on Unix, be an empty directory (which the
\* call replaces); on Windows an existing directory at `to` fails the call.
CanRename(src, dst, pop, ux) ==
    /\ src # {}
    /\ \/ dst = {}
       \/ ux /\ dst \cap pop = {}

\* ExitStatus::code()
code(status) == IF status[1] = "exited" THEN <<status[2]>> ELSE <<>>

\* A failed expect() in invocation i.
Panic(i) ==
    /\ pc' = [pc EXCEPT ![i] = "panicked"]
    /\ project' = [project EXCEPT ![i] = FALSE]
    /\ target' = [target EXCEPT ![i] = {}]
    /\ tool_exit' = [tool_exit EXCEPT ![i] = <<PanicCode>>]
    /\ events' = Append(events, <<"end", i>>)

\* TempDir::new and the writes of Cargo.toml and src/main.rs (main.rs:158-174).
\* Invocations are alike, so they are numbered in the order they start.
Start(i) ==
    /\ pc[i] = "init"
    /\ \A j \in 1..(i - 1) : pc[j] # "init"
    /\ pc' = [pc EXCEPT ![i] = "setup"]
    /\ project' = [project EXCEPT ![i] = TRUE]
    /\ events' = Append(events, <<"start", i>>)
    /\ UNCHANGED <<target, seed, slot, populated, made, absent, exit_status,
                   tool_exit, unix, textVars>>

\* fs::create_dir_all(cache_target_dir.clone()) (main.rs:179-180).
CreateCacheDir(i) ==
    /\ pc[i] = "setup"
    /\ slot' = create_dir_all(slot, made)
    /\ made' = IF slot' = slot THEN made ELSE made + 1
    /\ pc' = [pc EXCEPT ![i] = "created"]
    /\ UNCHANGED <<project, target, seed, populated, absent, exit_status,
                   tool_exit, unix, events, textVars>>

\* fs::rename(cache_target_dir, target_dir).expect(..), then the spawn of
\* `cargo run` (main.rs:181-190).
MoveFromCache(i) ==
    /\ pc[i] = "created"
    /\ IF CanRename(slot, target[i], populated, unix)
       THEN /\ target' = [target EXCEPT ![i] = slot]
            /\ seed' = [seed EXCEPT ![i] = slot]
            /\ slot' = RenamedAway(slot)
            /\ pc' = [pc EXCEPT ![i] = "building"]
            /\ UNCHANGED <<project, tool_exit, events>>
       ELSE /\ Panic(i)
            /\ UNCHANGED <<seed, slot>>
    /\ UNCHANGED <<populated, made, absent, exit_status, unix, textVars>>

\* child.wait() (main.rs:191): the child has exited with a code or was killed
\* by a signal; it may have written build artifacts into target/, and has if
\* it exited with 0.
WaitChild(i) ==
    /\ pc[i] = "building"
    /\ \E status \in {<<"exited", c>> : c \in ChildCodes} \cup {<<"signaled">>},
          built \in BOOLEAN :
          /\ status = <<"exited", 0>> => built
          /\ exit_status' = [exit_status EXCEPT ![i] = status]
          /\ populated' = IF built THEN populated \cup target[i] ELSE populated
    /\ pc' = [pc EXCEPT ![i] = "waited"]
    /\ UNCHANGED <<project, target, seed, slot, made, absent, tool_exit, unix,
                   events, textVars>>

\* !cache_target_dir.exists() (main.rs:197).
CheckCache(i) ==
    /\ pc[i] = "waited"
    /\ absent' = [absent EXCEPT ![i] = (slot = {})]
    /\ pc' = [pc EXCEPT ![i] = "checked"]
    /\ UNCHANGED <<project, target, seed, slot, populated, made, exit_status,
                   tool_exit, unix, events, textVars>>

\* The body of the if: fs::rename(target_dir, cache_target_dir).expect(..)
\* (main.rs:197-200).
MoveToCache(i) ==
    /\ pc[i] = "checked"
    /\ IF ~absent[i]
       THEN /\ pc' = [pc EXCEPT ![i] = "saved"]
            /\ UNCHANGED <<project, target, slot, tool_exit, events>>
       ELSE IF CanRename(target[i], slot, populated, unix)
       THEN /\ slot' = target[i]
            /\ target' = [target EXCEPT ![i] = RenamedAway(target[i])]
            /\ pc' = [pc EXCEPT ![i] = "saved"]
            /\ UNCHANGED <<project, tool_exit, events>>
       ELSE /\ Panic(i)
            /\ UNCHANGED slot
    /\ UNCHANGED <<seed, populated, made, absent, exit_status, unix, textVars>>

\* if let Some(code) = exit_status.code() { process::exit(code); } and the
\* end of main (main.rs:203-206).  process::exit runs no destructor, so
\* project_dir is not dropped; the return from main drops it, which removes
\* the project, and the process ends with 0.
Exit(i) ==
    /\ pc[i] = "saved"
    /\ IF code(exit_status[i]) # <<>>
       THEN /\ tool_exit' = [tool_exit EXCEPT ![i] = code(exit_status[i])]
            /\ UNCHANGED <<project, target>>
       ELSE /\ tool_exit' = [tool_exit EXCEPT ![i] = <<0>>]
            /\ project' = [project EXCEPT ![i] = FALSE]
            /\ target' = [target EXCEPT ![i] = {}]
    /\ pc' = [pc EXCEPT ![i] = "exited"]
    /\ events' = Append(events, <<"end", i>>)
    /\ UNCHANGED <<seed, slot, populated, made, absent, exit_status, unix, textVars>>

Init ==
    /\ ProcInit
    /\ unix \in BOOLEAN
    /\ input = <<>>
    /\ manifest = <<>>
    /\ source_code = <<>>
    /\ step = "off"

Next ==
    \E i \in Invocations :
        \/ Start(i)
        \/ CreateCacheDir(i)
        \/ MoveFromCache(i)
        \/ WaitChild(i)
        \/ CheckCache(i)
        \/ MoveToCache(i)
        \/ Exit(i)

Spec == Init /\ [][Next]_vars

(***************************************************************************)
(* Reference notions for the claims about the text transforms.  They are   *)
(* stated on the input, without the scanning of captures_iter.             *)
(***************************************************************************)
\* TRUE iff every character of t at positions a..b is in cls.
AllIn(t, a, b, cls) == \A k \in a..b : t[k] \in cls

\* t is `extern`, white space, `crate`, white space, the name t[b..c], optional
\* white space and `;`.
IsDeclarationWith(t, b, c) ==
    /\ HasLit(t, 1, ExternLit)
    /\ t[Len(t)] = ";"
    /\ b <= c /\ c < Len(t)
    /\ AllIn(t, b, c, IdentClass)
    /\ AllIn(t, c + 1, Len(t) - 1, SpaceClass)
    /\ \E a \in 7..(b - 7) :
          /\ AllIn(t, 7, a, SpaceClass)
          /\ HasLit(t, a + 1, CrateLit)
          /\ AllIn(t, a + 6, b - 1, SpaceClass)

\* The spans <<p, e, name start, name end>> of the input that are declarations.
\* A declaration starts at an `extern`, ends at a `;`, and its name starts
\* after white space and ends before a character that is not of a name.
Declarations(s) ==
    LET starts == {p \in 1..Len(s) : HasLit(s, p, ExternLit)}
        semis == {e \in 1..Len(s) : s[e] = ";"}
        nameStarts == {b \in 2..Len(s) : s[b] \in IdentClass /\ s[b - 1] \in SpaceClass}
        nameEnds == {c \in 1..(Len(s) - 1) : s[c] \in IdentClass /\ s[c + 1] \notin IdentClass}
    IN  { d \in {<<p, e, b, c>> : p \in starts, e \in semis, b \in nameStarts, c \in nameEnds} :
            /\ d[1] < d[3] /\ d[3] <= d[4] /\ d[4] < d[2]
            /\ IsDeclarationWith(SubSeq(s, d[1], d[2]), d[3] - d[1] + 1, d[4] - d[1] + 1) }

RECURSIVE InOrder(_)
\* A set of spans as a sequence, by increasing start.
InOrder(ds) ==
    IF ds = {} THEN <<>>
    ELSE LET first == CHOOSE d \in ds : \A o \in ds : d[1] <= o[1]
         IN  <<first>> \o InOrder(ds \ {first})

\* Some line of s starts with the entry-point signature.
HasMainLine(s) ==
    \E p \in 1..Len(s) : (p = 1 \/ s[p - 1] = "\n") /\ HasLit(s, p, FnMainLit)

RECURSIVE KeptFrom(_, _, _)
\* The characters of s at positions q.. that lie in no span of ds, in order.
KeptFrom(s, q, ds) ==
    IF q > Len(s) THEN <<>>
    ELSE IF \E d \in ds : d[1] <= q /\ q <= d[2] THEN KeptFrom(s, q + 1, ds)
    ELSE <<s[q]>> \o KeptFrom(s, q + 1, ds)

\* The input without its declarations.
WithoutDeclarations(s) == KeptFrom(s, 1, Declarations(s))

\* The declarations of the input, each followed by a newline, in input order.
HoistedLines(s) ==
    LET ds == InOrder(Declarations(s))
    IN  Concat([k \in 1..Len(ds) |-> SubSeq(s, ds[k][1], ds[k][2]) \o <<"\n">>])

\* Declarations, then one fn main() { .. } around the body.
WrappedAround(s, body) ==
    <<"\n">> \o HoistedLines(s)
        \o <<"\n", "f", "n", " ", "m", "a", "i", "n", "(", ")", " ", "{", "\n">>
        \o body \o <<"\n", "}">>

\* The positions of the body after which a declaration of the input was cut out.
CutPoints(s) ==
    LET ds == Declarations(s)
    IN  { Cardinality({q \in 1..(d[1] - 1) : ~\E o \in ds : o[1] <= q /\ q <= o[2]}) :
            d \in ds }

\* C2: for every input in which some line starts with `fn main()`,
\* make_source_code returns the input unchanged.
C2_ShortCircuitOnAnyLine ==
    (step = "done" /\ HasMainLine(input)) => source_code = input

\* C3 as claimed: an input with no entry-point line is wrapped as its
\* declarations followed by one fn main() whose body is the input without
\* them, and no declaration remains in the body.
C3_WrappingNoDeclarationLeft ==
    (step = "done" /\ ~HasMainLine(input)) =>
        /\ source_code = WrappedAround(input, WithoutDeclarations(input))
        /\ Declarations(WithoutDeclarations(input)) = {}

\* C3 as amended: an input with no entry-point line is wrapped as its
\* declarations (in input order, a newline after each) followed by one
\* fn main() whose body is the input with exactly those declarations cut out;
\* a declaration is found in the body only across a point where one was cut out.
C3_Wrapping ==
    (step = "done" /\ ~HasMainLine(input)) =>
        /\ source_code = WrappedAround(input, WithoutDeclarations(input))
        /\ \A d \in Declarations(WithoutDeclarations(input)) :
              \E r \in CutPoints(input) : d[1] <= r /\ r < d[2]

\* Witness of C3: an input with no entry-point line and with a declaration was
\* wrapped, and the text around the cut-out declaration forms a declaration.
C3_Witness ==
    /\ step = "done"
    /\ ~HasMainLine(input)
    /\ Declarations(input) # {}
    /\ Declarations(WithoutDeclarations(input)) # {}

\* The names of the declarations of the input, in input order.
DeclaredNames(s) ==
    LET ds == InOrder(Declarations(s))
    IN  [k \in 1..Len(ds) |-> SubSeq(s, ds[k][3], ds[k][4])]

\* The manifest with the dependency lines `lines` (a newline after each).
ManifestWith(lines) ==
    <<"\n", "[", "p", "a", "c", "k", "a", "g", "e", "]", "\n",
      "n", "a", "m", "e", " ", "=", " ", "\"", "e", "v", "a", "l", "r", "s", "_",
      "t", "e", "m", "p", "\"", "\n",
      "v", "e", "r", "s", "i", "o", "n", " ", "=", " ", "\"", "0", ".", "0", ".",
      "0", "\"", "\n", "\n",
      "[", "d", "e", "p", "e", "n", "d", "e", "n", "c", "i", "e", "s", "]", "\n">>
        \o Concat([k \in 1..Len(lines) |-> lines[k] \o <<"\n">>])
        \o <<"\n">>

\* C4: the [dependencies] block has one line `<name> = "*"` per declaration
\* of the input, in input order, a name declared twice getting two lines; an
\* input with no declaration gets an empty block.
C4_DependencyBlock ==
    step \in {"manifest", "done"} =>
        LET names == DeclaredNames(input)
        IN  manifest = ManifestWith([k \in 1..Len(names) |->
                                        names[k] \o <<" ", "=", " ", "\"", "*", "\"">>])

\* Witness of C4: the manifest was made for an input that declares the same
\* crate twice.
C4_Witness ==
    /\ step = "manifest"
    /\ LET names == DeclaredNames(input)
       IN  \E j, k \in 1..Len(names) : j < k /\ names[j] = names[k]

\* C9 as claimed: a declaration followed on its line by a comment gets the
\* comment as its manifest line when the comment is key=value, the line
\* `<name> = "<comment>"` for another comment, and `<name> = "*"` only when no
\* comment follows.
C9_SpecifierComments ==
    step \in {"manifest", "done"} =>
        LET ds == InOrder(Declarations(input))
        IN  manifest = ManifestWith([k \in 1..Len(ds) |->
                SpecifierLine(SubSeq(input, ds[k][3], ds[k][4]),
                              CommentAfter(input, ds[k][2]))])

RECURSIVE SplitLines(_)
\* The lines of a text in which every line ends with a newline.
SplitLines(t) ==
    IF t = <<>> THEN <<>>
    ELSE LET n == LineEnd(t, 1)
         IN  <<Slice(t, 1, n - 1)>> \o SplitLines(Slice(t, n + 1, Len(t)))

\* The lines between the [dependencies] header and the end of a manifest.
DependencyLinesOf(m) == SplitLines(Slice(m, Len(ManifestHead) + 1, Len(m) - 1))

\* C9 as amended: a comment after a declaration is not read; the manifest
\* line of a declaration that is followed by a comment on its line is
\* `<name> = "*"` as well.
C9_CommentNotRead ==
    step \in {"manifest", "done"} =>
        LET ds == InOrder(Declarations(input))
            lines == DependencyLinesOf(manifest)
        IN  \A k \in 1..Len(ds) :
                CommentAfter(input, ds[k][2]) # NoComment =>
                    /\ k <= Len(lines)
                    /\ lines[k] = SubSeq(input, ds[k][3], ds[k][4])
                                      \o <<" ", "=", " ", "\"", "*", "\"">>

\* Witness of C9: the manifest was made for an input with a declaration
\* followed on its line by a key=value comment.
C9_Witness ==
    /\ step = "manifest"
    /\ \E d \in Declarations(input) :
          \E k \in 1..Len(CommentAfter(input, d[2])) : CommentAfter(input, d[2])[k] = "="

(***************************************************************************)
(* Reference notions for the claims about the cache and the process.       *)
(***************************************************************************)
\* No two invocations have been alive at the same time: every start is the
\* last event or is followed at once by the end of the same invocation.
NoOverlap ==
    \A k \in 1..Len(events) :
        events[k][1] = "start" =>
            k = Len(events) \/ events[k + 1] = <<"end", events[k][2]>>

\* Invocation j started right after invocation i ended.
Follows(j, i) ==
    \E k \in 1..(Len(events) - 1) :
        events[k] = <<"end", i>> /\ events[k + 1] = <<"start", j>>

\* The build of invocation i is in progress: target/ has been moved out of
\* the cache and the post-build step has not begun.
Building(i) == pc[i] \in {"building", "waited"}

\* Invocation i has moved target/ out of the cache.
Seeded(i) == pc[i] \in {"building", "waited", "checked", "saved", "exited"}

\* C1: when invocations do not overlap, each one reaches its end and leaves
\* in the cache slot the build-output directory it built in, and the
\* invocation that follows starts from exactly that directory, whatever the
\* children's exit statuses.
C1_CacheRoundTrip ==
    NoOverlap =>
        \A i \in Invocations :
            /\ pc[i] # "panicked"
            /\ Seeded(i) => seed[i] # {}
            /\ (pc[i] \in {"saved", "exited"}
                   /\ \A j \in Invocations : ~Building(j) /\ pc[j] # "checked")
                 => slot # {} /\ slot = seed[i]
            /\ \A j \in Invocations : (Follows(j, i) /\ Seeded(j)) => seed[j] = seed[i]

\* Witness of C1: two invocations ran one after the other, the first from an
\* empty slot and with a child killed by a signal, the second with a child
\* that exited, and both have ended.
C1_Witness ==
    /\ NoOverlap
    /\ \E i, j \in Invocations :
          /\ Follows(j, i)
          /\ pc[i] = "exited" /\ pc[j] = "exited"
          /\ exit_status[i] = <<"signaled">>
          /\ exit_status[j] = <<"exited", 1>>
          /\ slot = seed[j]

\* C5: the tool exits with the child's exit code, and with the fallback code
\* 1 when the child has no exit code.
C5_ExitCodePropagation ==
    \A i \in Invocations :
        pc[i] = "exited" =>
            tool_exit[i] = IF exit_status[i][1] = "exited"
                           THEN <<exit_status[i][2]>>
                           ELSE <<1>>

\* C6 as claimed: while some invocation's build is in progress the cache slot
\* holds no directory, and it never holds more than one, for any number of
\* invocations.
C6_SlotEmptyWhileBuilding ==
    /\ Cardinality(slot) <= 1
    /\ (\E i \in Invocations : Building(i)) => slot = {}

\* C6 as amended: the cache slot never holds more than one directory; while
\* an invocation's build is in progress and no two invocations have
\* overlapped, the slot holds none.
C6_SlotEmptyWhileBuildingAlone ==
    /\ Cardinality(slot) <= 1
    /\ (NoOverlap /\ \E i \in Invocations : Building(i)) => slot = {}

\* Witness of C6: a second invocation that did not overlap the first is
\* building from the directory the first one left.
C6_Witness ==
    /\ NoOverlap
    /\ \E i, j \in Invocations :
          Follows(j, i) /\ pc[i] = "exited" /\ Building(j) /\ target[j] = seed[i]

\* C7: the move of an invocation's target/ into the cache changes nothing if
\* the slot is occupied at the moment of the move: the slot keeps its
\* content and target/ stays in the project.
C7_RefillOnlyWhenEmpty ==
    [][\A i \in Invocations :
          (pc[i] = "checked" /\ pc'[i] # "checked" /\ slot # {}) =>
              /\ slot' = slot
              /\ pc'[i] = "saved" => target'[i] = target[i]]_vars

\* C8: once an invocation's process has ended, its temporary project
\* directory does not exist.
C8_ProjectRemoved ==
    \A i \in Invocations : pc[i] = "exited" => ~project[i]

\* C10: no invocation aborts on a relocation of target/.
C10_NoFatalAbort ==
    \A i \in Invocations : pc[i] # "panicked"

====
